---- MODULE Spec2Model ----
(***************************************************************************)
(* polysolve::nonlinear::Solver -- the solve driver Solver::minimize,      *)
(* Solver::reset and Solver::update_solver_info, as a state machine.       *)
(*                                                                         *)
(* x, the gradient and the update direction are one-dimensional.  Doubles  *)
(* are integers plus the three IEEE specials PInf, NInf and NaN.  The      *)
(* objective (value, gradient, stop, callback), the descent strategy       *)
(* (compute_update_direction) and the line search are the environment:     *)
(* their results are inputs of the steps that call them.                   *)
(***************************************************************************)
EXTENDS Integers, FiniteSets, Sequences, TLC

-----------------------------------------------------------------------------
(* Bounds of the model *)

\* largest max_iterations the configuration may hold
MaxIter == 2

\* number of minimize calls made on the one solver
MaxCalls == 2

-----------------------------------------------------------------------------
(* Doubles *)

\* std::numeric_limits<double>::quiet_NaN()
NaN == 9999

\* +infinity (what std::isfinite rejects besides NaN)
PInf == 1000

NInf == -PInf

IsNaN(a) == a = NaN

IsFinite(a) == a # NaN /\ a # PInf /\ a # NInf

Neg(a) == IF a = NaN THEN NaN ELSE -a

Abs(a) == IF a = NaN THEN NaN ELSE IF a < 0 THEN -a ELSE a

Add(a, b) ==
    IF a = NaN \/ b = NaN THEN NaN
    ELSE IF ~IsFinite(a) /\ ~IsFinite(b) THEN (IF a = b THEN a ELSE NaN)
    ELSE IF ~IsFinite(a) THEN a
    ELSE IF ~IsFinite(b) THEN b
    ELSE a + b

Sub(a, b) == Add(a, Neg(b))

Mul(a, b) ==
    IF a = NaN \/ b = NaN THEN NaN
    ELSE IF ~IsFinite(a) \/ ~IsFinite(b)
         THEN (IF a = 0 \/ b = 0 THEN NaN
               ELSE IF (a > 0) = (b > 0) THEN PInf ELSE NInf)
    ELSE a * b

\* a <= b on doubles: false as soon as one side is NaN
Leq(a, b) == a # NaN /\ b # NaN /\ a <= b

\* a >= b on doubles
Geq(a, b) == a # NaN /\ b # NaN /\ a >= b

-----------------------------------------------------------------------------
(* Inputs *)

\* configured tolerances x_delta, f_delta, grad_norm, first_grad_norm_tol
Tols == {0, 1}

\* characteristic_length
Lengths == {1, 2}

\* results of objFunc.value(x)
Energies == {0, 2, PInf, NaN}

\* results of objFunc.gradient(x, grad)
Gradients == {0, 1, PInf, NaN}

\* results of compute_update_direction
Directions == {-1, 0, NaN}

\* results of m_line_search->line_search
Rates == {1, NaN}

\* configured line_search.use_grad_norm_tol
UseTols == {1}

Statuses == {"NotStarted", "Continue", "IterationLimit", "XDeltaTolerance",
             "FDeltaTolerance", "GradNormTolerance", "UserDefined"}

ErrorCodes == {"Success", "NaNEncountered", "LineSearchFailed", "NotDescentDirection"}

VARIABLES
    params,                  \* solver_params, as read by the constructor
    characteristic_length,
    allow_out_of_iterations,
    default_descent_strategy,
    is_direction_descent,
    first_grad_norm_tol,
    use_grad_norm_tol,
    m_stop,
    m_current,
    m_status,
    m_error_code,
    descent_strategy,
    solver_info,
    x,                       \* the caller's vector
    fx,                      \* objFunc.value at the present x
    old_energy,
    g_norm_tol,
    grad,
    delta_x,
    pc,                      \* position inside minimize; "idle" outside
    result,                  \* how the last call ended
    event,                   \* what the last step did
    retries,                 \* attempts retried since the last commit
    commits,                 \* commits of the present call
    calls,                   \* minimize calls started
    post_step_calls,         \* objFunc.post_step calls of the present call
    last_post_step,          \* arguments of the last objFunc.post_step
    save_calls               \* objFunc.save_to_file calls of the present call

vars == <<params, characteristic_length, allow_out_of_iterations,
          default_descent_strategy, is_direction_descent, first_grad_norm_tol,
          m_stop, m_current, m_status, m_error_code, descent_strategy,
          solver_info, x, fx, old_energy, g_norm_tol, grad, delta_x, pc,
          result, event, retries, commits, calls, use_grad_norm_tol,
          post_step_calls, last_post_step, save_calls>>

config == <<params, characteristic_length, allow_out_of_iterations,
            default_descent_strategy, is_direction_descent, first_grad_norm_tol,
            use_grad_norm_tol>>

hooks == <<post_step_calls, last_post_step, save_calls>>

-----------------------------------------------------------------------------
(* Helpers of the driver *)

\* variant: the thresholds are scaled a second time
ScaledCriteriaTwice(p, cl) ==
    [iterations |-> p.max_iterations,
     xDelta     |-> p.x_delta * cl * cl,
     fDelta     |-> p.f_delta * cl * cl,
     gradNorm   |-> p.grad_norm * cl * cl]

\* TCriteria of the constructor: thresholds scaled by characteristic_length
ScaledCriteria(p, cl) ==
    [iterations |-> p.max_iterations,
     xDelta     |-> p.x_delta * cl,
     fDelta     |-> p.f_delta * cl,
     gradNorm   |-> p.grad_norm * cl]

\* first_grad_norm_tol *= characteristic_length
ScaledFirstTol(p, cl) == p.first_grad_norm_tol * cl

\* use_grad_norm_tol *= characteristic_length
ScaledUseTol(p, cl) == p.use_grad_norm_tol * cl

\* Criteria::reset of m_current
CriteriaReset == [iterations |-> 0, xDelta |-> 0, fDelta |-> 0, gradNorm |-> 0]

\* check(stop, current) -> Status
checkConvergence(stop, current) ==
    IF current.iterations >= stop.iterations THEN "IterationLimit"
    ELSE IF Leq(current.fDelta, stop.fDelta) THEN "FDeltaTolerance"
    ELSE IF Leq(current.xDelta, stop.xDelta) THEN "XDeltaTolerance"
    ELSE IF Leq(current.gradNorm, stop.gradNorm) THEN "GradNormTolerance"
    ELSE "Continue"

\* increase_descent_strategy(): one level up, a no-op at level 2
increase_descent_strategy(level) == IF level < 2 THEN level + 1 ELSE level

\* variant: the level reached by the fallbacks is kept
KeepDescentStrategy(level, default) == level

\* set_default_descent_strategy(): back to the strategy's default level
set_default_descent_strategy(level, default) == default

\* variant: post_step is given the counter after its increment
PostStepArgsAfterIncrement(cur, xx) == [iter |-> cur.iterations + 1, x |-> xx]

\* objFunc.post_step(m_current.iterations, x), made before the increment
PostStepArgs(cur, xx) == [iter |-> cur.iterations, x |-> xx]

\* grad.norm()
compute_grad_norm(g) == Abs(g)

\* variant: the whole record is cleared, the iteration counter with it
ClearCurrentAndIterations(cur) ==
    [cur EXCEPT !.iterations = 0, !.xDelta = NaN, !.fDelta = NaN, !.gradNorm = NaN]

\* the first three NaN assignments of an attempt
ClearCurrent(cur) == [cur EXCEPT !.xDelta = NaN, !.fDelta = NaN, !.gradNorm = NaN]

\* variant: only NaN is tested, as for the gradient
EnergyIsNaNOnly(energy) == IsNaN(energy)

\* !std::isfinite(energy)
EnergyIsFatal(energy) == ~IsFinite(energy)

\* std::abs(old_energy - energy)
FDeltaOf(old, energy) == Abs(Sub(old, energy))

\* std::isnan(grad_norm)
GradNormIsFatal(grad_norm) == IsNaN(grad_norm)

\* is_direction_descent() && grad_norm != 0 && delta_x.dot(grad) >= 0
NotDescent(claims_descent, grad_norm, dot) ==
    claims_descent /\ grad_norm # 0 /\ Geq(dot, 0)

\* variant: the norm is stored at every level
XDeltaAlwaysNorm(level, delta_x_norm) == delta_x_norm

\* descent_strategy == 2 ? NaN : delta_x_norm
XDeltaOf(level, delta_x_norm) == IF level = 2 THEN NaN ELSE delta_x_norm

\* descent_strategy < 2, the test made when the line search returned NaN
LineSearchRetries(level) == level < 2

\* variant: the first-iteration threshold is never installed
KeepGradNormTol(stop, tol) == stop

\* the gradNorm threshold installed before the loop
SwapGradNormTol(stop, tol) == [stop EXCEPT !.gradNorm = tol]

\* the gradNorm threshold put back after a commit
RestoreGradNormTol(stop, tol) == [stop EXCEPT !.gradNorm = tol]

\* x += rate * delta_x
CommitX(xx, rate, dx) == Add(xx, Mul(rate, dx))

\* if (objFunc.stop(x)) status = UserDefined
StatusAfterStop(stp, status) == IF stp THEN "UserDefined" ELSE status

\* if (objFunc.stop(x)) m_error_code = SUCCESS
ErrorAfterStop(stp, err) == IF stp THEN "Success" ELSE err

\* ++m_current.iterations
IncrementIterations(cur) == [cur EXCEPT !.iterations = @ + 1]

\* variant: the limit is tested with > instead of >=
StatusAfterIncrementOffByOne(cur, stop, status) ==
    IF cur.iterations > stop.iterations THEN "IterationLimit" ELSE status

\* if (iterations >= m_stop.iterations) status = IterationLimit
StatusAfterIncrement(cur, stop, status) ==
    IF cur.iterations >= stop.iterations THEN "IterationLimit" ELSE status

\* variant: the callback's answer is dropped
LoopContinuesIgnoringCallback(cb, status) == status = "Continue"

\* the while condition of the loop
LoopContinues(cb, status) == cb /\ status = "Continue"

\* variant: the iteration limit throws whatever allow_out_of_iterations is
ThrowsAfterLoopIgnoringAllow(allow, status, err) ==
    \/ status = "IterationLimit"
    \/ (status = "UserDefined" /\ err # "Success")

\* the two log_and_throw_error tests after the loop
ThrowsAfterLoop(allow, status, err) ==
    \/ (~allow /\ status = "IterationLimit")
    \/ (status = "UserDefined" /\ err # "Success")

\* Solver::update_solver_info
update_solver_info(info, status, err, cur) ==
    [info EXCEPT !.status = status, !.error_code = err, !.iterations = cur.iterations]

\* variant: the line_search name is not put back
ResetSolverInfoLosingName(info) ==
    [line_search |-> "unset", status |-> "unset",
     error_code |-> "unset", iterations |-> 0]

\* solver_info = json() with line_search kept and iterations = 0
ResetSolverInfo(info) ==
    [line_search |-> info.line_search, status |-> "unset",
     error_code |-> "unset", iterations |-> 0]

-----------------------------------------------------------------------------
(* Construction *)

Params ==
    [x_delta : Tols, f_delta : Tols, grad_norm : Tols,
     first_grad_norm_tol : Tols, use_grad_norm_tol : UseTols,
     max_iterations : 1..MaxIter]

Init ==
    /\ params \in Params
    /\ characteristic_length \in Lengths
    /\ allow_out_of_iterations \in BOOLEAN
    /\ default_descent_strategy \in 0..2
    /\ is_direction_descent \in BOOLEAN
    /\ first_grad_norm_tol = ScaledFirstTol(params, characteristic_length)
    /\ use_grad_norm_tol = ScaledUseTol(params, characteristic_length)
    /\ m_stop = ScaledCriteria(params, characteristic_length)
    /\ m_current = CriteriaReset
    /\ m_status = "NotStarted"
    /\ m_error_code = "Success"
    /\ descent_strategy = default_descent_strategy
    /\ solver_info = [line_search |-> "method", status |-> "unset",
                      error_code |-> "unset", iterations |-> -1]
    /\ x = 0
    /\ fx = 0
    /\ old_energy = NaN
    /\ g_norm_tol = 0
    /\ grad = 0
    /\ delta_x = 0
    /\ pc = "idle"
    /\ result = "none"
    /\ event = "constructed"
    /\ retries = 0
    /\ commits = 0
    /\ calls = 0
    /\ post_step_calls = 0
    /\ last_post_step = [iter |-> -1, x |-> 0]
    /\ save_calls = 0

-----------------------------------------------------------------------------
(* minimize *)

\* log_and_throw_error inside the loop: the call ends, its locals die
Throws(ev) ==
    /\ pc' = "idle"
    /\ result' = "thrown"
    /\ event' = ev
    /\ old_energy' = NaN
    /\ g_norm_tol' = 0
    /\ delta_x' = 0

\* reset(x.size()) up to the first update_solver_info
Minimize ==
    /\ pc = "idle"
    /\ calls < MaxCalls
    /\ \E e \in Energies : fx' = e
    /\ m_current' = CriteriaReset
    /\ descent_strategy' = set_default_descent_strategy(descent_strategy,
                                                        default_descent_strategy)
    /\ m_error_code' = "Success"
    /\ solver_info' = update_solver_info(ResetSolverInfo(solver_info),
                                         m_status, "Success", CriteriaReset)
    /\ old_energy' = NaN
    /\ g_norm_tol' = m_stop.gradNorm
    /\ m_stop' = SwapGradNormTol(m_stop, first_grad_norm_tol)
    /\ grad' = 0
    /\ delta_x' = 0
    /\ pc' = "energy"
    /\ result' = "none"
    /\ event' = "start"
    /\ retries' = 0
    /\ commits' = 0
    /\ calls' = calls + 1
    /\ post_step_calls' = 0
    /\ last_post_step' = [iter |-> -1, x |-> 0]
    /\ save_calls' = 1
    /\ UNCHANGED <<config, m_status, x>>

\* objFunc.value(x), the finiteness test, fDelta and the first check
Energy ==
    /\ pc = "energy"
    /\ LET energy == fx
           cur0 == ClearCurrent(m_current)
           cur1 == [cur0 EXCEPT !.fDelta = FDeltaOf(old_energy, energy)]
           st == checkConvergence(m_stop, cur1)
       IN  IF EnergyIsFatal(energy)
           THEN /\ m_current' = cur0
                /\ m_status' = "UserDefined"
                /\ m_error_code' = "NaNEncountered"
                /\ Throws("nan_energy")
                /\ grad' = 0
           ELSE /\ m_current' = cur1
                /\ old_energy' = energy
                /\ m_status' = st
                /\ pc' = IF st # "Continue" THEN "finish" ELSE "gradient"
                /\ event' = IF st # "Continue" THEN "converged" ELSE "energy"
                /\ UNCHANGED <<m_error_code, result, g_norm_tol, grad, delta_x>>
    /\ UNCHANGED <<config, m_stop, descent_strategy, solver_info, x, fx,
                   retries, commits, calls, hooks>>

\* objFunc.gradient(x, grad), the NaN test and the second check
Gradient ==
    /\ pc = "gradient"
    /\ \E g \in Gradients :
         LET grad_norm == compute_grad_norm(g)
             cur1 == [m_current EXCEPT !.gradNorm = grad_norm]
             st == checkConvergence(m_stop, cur1)
         IN  /\ grad' = g
             /\ IF GradNormIsFatal(grad_norm)
                THEN /\ m_status' = "UserDefined"
                     /\ m_error_code' = "NaNEncountered"
                     /\ Throws("nan_gradient")
                     /\ UNCHANGED m_current
                ELSE /\ m_current' = cur1
                     /\ m_status' = st
                     /\ pc' = IF st # "Continue" THEN "finish" ELSE "direction"
                     /\ event' = IF st # "Continue" THEN "converged" ELSE "gradient"
                     /\ UNCHANGED <<m_error_code, result, old_energy, g_norm_tol, delta_x>>
    /\ UNCHANGED <<config, m_stop, descent_strategy, solver_info, x, fx,
                   retries, commits, calls, hooks>>

\* compute_update_direction, its two validations, xDelta and the third check
Direction ==
    /\ pc = "direction"
    /\ \E d \in Directions :
         LET grad_norm == m_current.gradNorm
             dot == Mul(d, grad)
             delta_x_norm == Abs(d)
             cur1 == [m_current EXCEPT !.xDelta = XDeltaOf(descent_strategy, delta_x_norm)]
             st == checkConvergence(m_stop, cur1)
         IN  /\ delta_x' = d
             /\ IF NotDescent(is_direction_descent, grad_norm, dot)
                THEN /\ descent_strategy' = increase_descent_strategy(descent_strategy)
                     /\ m_status' = "Continue"
                     /\ pc' = "loop_cond"
                     /\ event' = "retry_not_descent"
                     /\ retries' = retries + 1
                     /\ UNCHANGED m_current
                ELSE IF IsNaN(delta_x_norm)
                THEN /\ descent_strategy' = increase_descent_strategy(descent_strategy)
                     /\ m_status' = "Continue"
                     /\ pc' = "loop_cond"
                     /\ event' = "retry_nan_direction"
                     /\ retries' = retries + 1
                     /\ UNCHANGED m_current
                ELSE /\ m_current' = cur1
                     /\ m_status' = st
                     /\ pc' = IF st # "Continue" THEN "finish" ELSE "line_search"
                     /\ event' = IF st # "Continue" THEN "converged" ELSE "direction"
                     /\ UNCHANGED <<descent_strategy, retries>>
    /\ UNCHANGED <<config, m_stop, m_error_code, solver_info, x, fx, old_energy,
                   g_norm_tol, grad, result, commits, calls, hooks>>

\* line_search, its failure handling, and the commit up to the restored tolerance
LineSearch ==
    /\ pc = "line_search"
    /\ \E rate \in Rates, stp \in BOOLEAN, e \in Energies :
         IF IsNaN(rate)
         THEN IF LineSearchRetries(descent_strategy)
              THEN /\ descent_strategy' = increase_descent_strategy(descent_strategy)
                   /\ pc' = "loop_cond"
                   /\ event' = "retry_line_search"
                   /\ retries' = retries + 1
                   /\ UNCHANGED <<m_stop, m_current, m_status, m_error_code,
                                  solver_info, x, fx, old_energy, g_norm_tol,
                                  grad, delta_x, result, commits, hooks>>
              ELSE /\ m_status' = "UserDefined"
                   /\ Throws("line_search_failed")
                   /\ grad' = 0
                   /\ UNCHANGED <<m_stop, m_current, m_error_code, descent_strategy,
                                  solver_info, x, fx, retries, commits, hooks>>
         ELSE LET nx == CommitX(x, rate, delta_x)
                  st1 == StatusAfterStop(stp, m_status)
                  cur1 == IncrementIterations(m_current)
                  st2 == StatusAfterIncrement(cur1, m_stop, st1)
                  err == ErrorAfterStop(stp, m_error_code)
              IN  /\ x' = nx
                  /\ fx' = IF nx = x THEN fx ELSE e
                  /\ descent_strategy' =
                         set_default_descent_strategy(descent_strategy,
                                                      default_descent_strategy)
                  /\ m_error_code' = err
                  /\ post_step_calls' = post_step_calls + 1
                  /\ last_post_step' = PostStepArgs(m_current, nx)
                  /\ save_calls' = save_calls + 1
                  /\ m_current' = cur1
                  /\ m_status' = st2
                  /\ solver_info' = update_solver_info(solver_info, st2, err, cur1)
                  /\ m_stop' = RestoreGradNormTol(m_stop, g_norm_tol)
                  /\ pc' = "loop_cond"
                  /\ event' = IF stp THEN "commit_stop" ELSE "commit"
                  /\ retries' = 0
                  /\ commits' = commits + 1
                  /\ UNCHANGED <<old_energy, g_norm_tol, grad, delta_x, result>>
    /\ UNCHANGED <<config, calls>>

\* while (objFunc.callback(m_current, x) && m_status == Continue)
LoopCond ==
    /\ pc = "loop_cond"
    /\ \E cb \in BOOLEAN :
         /\ pc' = IF LoopContinues(cb, m_status) THEN "energy" ELSE "finish"
         /\ event' = IF ~cb
                     THEN (IF event = "commit" THEN "callback_false_commit"
                           ELSE IF event = "commit_stop" THEN "callback_false_commit_stop"
                           ELSE "callback_false_retry")
                     ELSE IF m_status = "Continue" THEN "continue" ELSE event
    /\ UNCHANGED <<config, m_stop, m_current, m_status, m_error_code,
                   descent_strategy, solver_info, x, fx, old_energy, g_norm_tol,
                   grad, delta_x, result, retries, commits, calls, hooks>>

\* after the loop: the two throws, else the last update_solver_info and return
Finish ==
    /\ pc = "finish"
    /\ pc' = "idle"
    /\ IF ThrowsAfterLoop(allow_out_of_iterations, m_status, m_error_code)
       THEN /\ result' = "thrown"
            /\ UNCHANGED solver_info
       ELSE /\ result' = "returned"
            /\ solver_info' = update_solver_info(solver_info, m_status,
                                                 m_error_code, m_current)
    /\ old_energy' = NaN
    /\ g_norm_tol' = 0
    /\ grad' = 0
    /\ delta_x' = 0
    /\ UNCHANGED <<config, m_stop, m_current, m_status, m_error_code,
                   descent_strategy, x, fx, event, retries, commits, calls,
                   hooks>>

Next ==
    \/ Minimize
    \/ Energy
    \/ Gradient
    \/ Direction
    \/ LineSearch
    \/ LoopCond
    \/ Finish

Spec == Init /\ [][Next]_vars

TypeOK ==
    /\ m_status \in Statuses
    /\ m_error_code \in ErrorCodes
    /\ descent_strategy \in 0..2
    /\ pc \in {"idle", "energy", "gradient", "direction", "line_search",
               "loop_cond", "finish"}
    /\ result \in {"none", "returned", "thrown"}

-----------------------------------------------------------------------------
(* Properties *)

Tolerances == {"XDeltaTolerance", "FDeltaTolerance", "GradNormTolerance"}

RetryEvents == {"retry_not_descent", "retry_nan_direction", "retry_line_search"}

\* the step taken is a commit
CommitStep == commits' = commits + 1

\* the gradient of the first attempt of a call is about to be computed
FirstAttemptGradient == pc = "gradient" /\ commits = 0 /\ retries = 0

\* the call ended without a fatal error, on the status and error code given
EndsWith(status, err) ==
    /\ pc \in {"finish", "idle"}
    /\ m_status = status
    /\ m_error_code = err
    /\ result # "thrown"

\* C1: inside minimize a step that is not a commit leaves x and
\* current.iterations as they were, and a commit adds exactly 1 to
\* current.iterations.
C1_OnlyCommitAdvances ==
    [][pc # "idle" =>
         IF CommitStep
         THEN m_current'.iterations = m_current.iterations + 1
         ELSE x' = x /\ m_current'.iterations = m_current.iterations]_vars

\* C1 witness: a line-search retry after one commit that moved x
C1_Witness ==
    /\ event = "retry_line_search"
    /\ commits = 1
    /\ m_current.iterations = 1
    /\ x = -1

\* C2: an attempt that fails while strategy_level is already 2 (non-descent
\* direction, NaN direction, NaN line-search step) ends minimize with a
\* fatal error instead of going round the loop again.
C2_ExhaustedLadderIsFatal ==
    [][(pc \in {"direction", "line_search"}
        /\ descent_strategy = 2
        /\ event' \in RetryEvents \cup {"line_search_failed"})
       => result' = "thrown"]_vars

\* C3: a NaN line-search step at strategy_level 2 ends minimize with status
\* UserDefined, error code LineSearchFailed and a fatal error.
C3_LineSearchFailedCode ==
    event = "line_search_failed" =>
        /\ m_status = "UserDefined"
        /\ m_error_code = "LineSearchFailed"
        /\ result = "thrown"

\* C4: a call that ended with status IterationLimit threw iff
\* allow_out_of_iterations is false, and a call that ended with a
\* *Tolerance status returned normally.
C4_IterationLimitPolicy ==
    (pc = "idle" /\ result # "none") =>
        /\ m_status = "IterationLimit" =>
               (result = "thrown" <=> ~allow_out_of_iterations)
        /\ m_status \in Tolerances => result = "returned"

\* C4 witness: the limit was reached, allow_out_of_iterations is true and
\* the call returned
C4_Witness ==
    /\ pc = "idle"
    /\ result = "returned"
    /\ m_status = "IterationLimit"
    /\ allow_out_of_iterations
    /\ commits = m_stop.iterations

\* C5: once objective.stop(x) has returned true after a commit, the call is
\* a success: status UserDefined, error code Success, no fatal error.
C5_ObjectiveStopIsSuccess ==
    event \in {"commit_stop", "callback_false_commit_stop"} =>
        /\ m_status = "UserDefined"
        /\ m_error_code = "Success"
        /\ result # "thrown"

\* C6 as stated: callback returning false after any commit ends the call
\* there with status Continue, error code Success, no fatal error and
\* current.iterations equal to the number of commits.
C6_CallbackStopAnyCommit ==
    event \in {"callback_false_commit", "callback_false_commit_stop"} =>
        /\ EndsWith("Continue", "Success")
        /\ commits >= 1
        /\ m_current.iterations = commits

\* C6 amended: callback returning false after the k-th commit, when that
\* commit did not reach max_iterations and objective.stop(x) did not
\* return true at it, ends the call there with status Continue, error code
\* Success, no fatal error and current.iterations = k.
C6_CallbackStopBelowLimit ==
    (event = "callback_false_commit" /\ commits < m_stop.iterations) =>
        /\ EndsWith("Continue", "Success")
        /\ commits >= 1
        /\ m_current.iterations = commits

\* C6 witness: callback returned false after the first of two allowed
\* commits and the call returned
C6_Witness ==
    /\ event = "callback_false_commit"
    /\ pc = "idle"
    /\ result = "returned"
    /\ commits = 1
    /\ m_stop.iterations = 2

\* C7 as stated: in the first attempt of a call, a gradient norm at most
\* grad_norm * characteristic_length ends the loop with status
\* GradNormTolerance, 0 iterations and x untouched.
C7_StopsAtConfiguredGradNorm ==
    [][(FirstAttemptGradient
        /\ Leq(compute_grad_norm(grad'), params.grad_norm * characteristic_length))
       => /\ pc' = "finish"
          /\ m_status' = "GradNormTolerance"
          /\ m_current'.iterations = 0
          /\ x' = x]_vars

\* C7 amended: in the first attempt of a call, a gradient norm at most
\* first_grad_norm_tol * characteristic_length ends the loop with status
\* GradNormTolerance, 0 iterations and x untouched.
C7_StopsAtFirstGradNorm ==
    [][(FirstAttemptGradient
        /\ Leq(compute_grad_norm(grad'),
               params.first_grad_norm_tol * characteristic_length))
       => /\ pc' = "finish"
          /\ m_status' = "GradNormTolerance"
          /\ m_current'.iterations = 0
          /\ x' = x]_vars

\* C7 witness: a call returned from its first attempt on the
\* first-iteration threshold, which the configured one would not have met
C7_Witness ==
    /\ pc = "idle"
    /\ result = "returned"
    /\ m_status = "GradNormTolerance"
    /\ commits = 0
    /\ retries = 0
    /\ m_current.iterations = 0
    /\ Leq(m_current.gradNorm, params.first_grad_norm_tol * characteristic_length)
    /\ ~Leq(m_current.gradNorm, params.grad_norm * characteristic_length)

\* C8: wherever a convergence check is about to be made, stop.gradNorm is
\* first_grad_norm_tol * characteristic_length before the first commit of
\* the call and grad_norm * characteristic_length after it.
C8_ActiveGradNormTol ==
    pc \in {"energy", "gradient", "direction"} =>
        m_stop.gradNorm =
            IF commits = 0
            THEN params.first_grad_norm_tol * characteristic_length
            ELSE params.grad_norm * characteristic_length

\* C9: an attempt that starts at a non-finite energy, or computes a NaN
\* gradient norm, ends the call at once: status UserDefined, error code
\* NaNEncountered, a fatal error, no commit.
C9_NonFiniteIsFatal ==
    [][((pc = "energy" /\ ~IsFinite(fx))
        \/ (pc = "gradient" /\ IsNaN(compute_grad_norm(grad'))))
       => /\ pc' = "idle"
          /\ result' = "thrown"
          /\ m_status' = "UserDefined"
          /\ m_error_code' = "NaNEncountered"
          /\ x' = x
          /\ commits' = commits
          /\ m_current'.iterations = m_current.iterations]_vars

\* C9 witness: after one commit the energy at the new x was infinite and
\* the call threw
C9_Witness ==
    /\ event = "nan_energy"
    /\ fx = PInf
    /\ commits = 1
    /\ result = "thrown"
    /\ m_error_code = "NaNEncountered"

\* C10: an attempt that computes an infinite gradient norm ends the call at
\* once with error code NaNEncountered and a fatal error.
C10_InfiniteGradientIsFatal ==
    [][(pc = "gradient" /\ compute_grad_norm(grad') = PInf)
       => /\ pc' = "idle"
          /\ result' = "thrown"
          /\ m_error_code' = "NaNEncountered"]_vars

CommitEvents == {"commit", "commit_stop"}

\* positions of the steps of one attempt
AttemptSteps == {"energy", "gradient", "direction", "line_search"}

\* C11: the start of minimize and every commit put strategy_level at the
\* strategy's default level, and no other step lowers it.
C11_LadderMonotone ==
    [][IF pc = "idle" \/ CommitStep
       THEN descent_strategy' = default_descent_strategy
       ELSE descent_strategy' >= descent_strategy]_vars

\* C11 witness: after a commit, a retry has raised the level above the
\* default
C11_Witness ==
    /\ pc = "loop_cond"
    /\ event \in RetryEvents
    /\ commits = 1
    /\ descent_strategy = default_descent_strategy + 1

\* C12: when a call has ended, by return or by a fatal error, solver_info's
\* status, error_code and iterations are the solver's.
C12_SolverInfoAtTermination ==
    (pc = "idle" /\ result # "none") =>
        /\ solver_info.status = m_status
        /\ solver_info.error_code = m_error_code
        /\ solver_info.iterations = m_current.iterations

\* C13: stop.xDelta, stop.fDelta, first_grad_norm_tol and use_grad_norm_tol
\* are the configured values times characteristic_length, stop.iterations
\* is max_iterations, stop.gradNorm is grad_norm * characteristic_length
\* after construction and never a value scaled a second time.
C13_ScaledOnce ==
    /\ m_stop.xDelta = params.x_delta * characteristic_length
    /\ m_stop.fDelta = params.f_delta * characteristic_length
    /\ m_stop.iterations = params.max_iterations
    /\ first_grad_norm_tol = params.first_grad_norm_tol * characteristic_length
    /\ use_grad_norm_tol = params.use_grad_norm_tol * characteristic_length
    /\ m_stop.gradNorm \in {params.grad_norm * characteristic_length,
                            params.first_grad_norm_tol * characteristic_length}
    /\ calls = 0 => m_stop.gradNorm = params.grad_norm * characteristic_length

\* C13 witness: two calls, the second with a commit, on a solver of
\* characteristic_length 2 and non-zero tolerances
C13_Witness ==
    /\ calls = 2
    /\ pc = "idle"
    /\ commits = 1
    /\ characteristic_length = 2
    /\ params.f_delta = 1
    /\ params.grad_norm = 1
    /\ m_stop.fDelta = 2
    /\ m_stop.gradNorm = 2

\* C14: the attempt that follows a retry, with stop.fDelta > 0, gets
\* current.fDelta = 0 and is not ended with FDeltaTolerance: it goes on to
\* the gradient.
C14_RetryHarmlessForFDelta ==
    [][(pc = "energy" /\ retries > 0 /\ m_stop.fDelta > 0)
       => /\ m_current'.fDelta = 0
          /\ m_status' # "FDeltaTolerance"
          /\ pc' = "gradient"]_vars

\* C15: between calls stop.gradNorm is the configured
\* grad_norm * characteristic_length, however the last call ended.
C15_GradNormTolRestored ==
    pc = "idle" => m_stop.gradNorm = params.grad_norm * characteristic_length

\* C16: current.iterations never exceeds stop.iterations, and once they are
\* equal the status is IterationLimit and no further attempt is started.
C16_IterationsBounded ==
    /\ m_current.iterations <= m_stop.iterations
    /\ m_current.iterations = m_stop.iterations =>
           /\ m_status = "IterationLimit"
           /\ pc \in {"loop_cond", "finish", "idle"}

\* C16 witness: the second commit of a call reached max_iterations = 2
C16_Witness ==
    /\ pc = "loop_cond"
    /\ event \in CommitEvents
    /\ m_current.iterations = 2
    /\ m_stop.iterations = 2
    /\ m_status = "IterationLimit"

\* C17: in a call post_step has been called once per commit, the last time
\* with the updated x and the number of earlier commits (the counter before
\* its increment), and save_to_file once more than there were commits.
C17_HooksPerCommit ==
    calls > 0 =>
        /\ post_step_calls = commits
        /\ save_calls = commits + 1
        /\ last_post_step.iter = commits - 1
        /\ commits > 0 =>
               /\ last_post_step.x = x
               /\ last_post_step.iter = m_current.iterations - 1

\* C17 witness: a retry after the first commit, which called no hook
C17_Witness ==
    /\ pc = "loop_cond"
    /\ event \in RetryEvents
    /\ post_step_calls = 1
    /\ last_post_step = [iter |-> 0, x |-> -1]
    /\ save_calls = 2

C19_CallbackAfterAttempt ==
    [][/\ pc \in AttemptSteps =>
              (pc' = "loop_cond" <=> event' \in RetryEvents \cup CommitEvents)
       /\ (pc \in AttemptSteps /\ event' \in RetryEvents) =>
              (x' = x /\ m_current'.iterations = m_current.iterations)
       /\ (pc = "loop_cond" /\ event' = "callback_false_retry") =>
              (pc' = "finish" /\ m_status' = "Continue" /\ x' = x
               /\ m_current'.iterations = m_current.iterations)
       /\ (pc = "finish" /\ event = "callback_false_retry") =>
              (result' = "returned" /\ m_status' = "Continue" /\ x' = x
               /\ m_current'.iterations = m_current.iterations)]_vars

\* C19 witness: callback returned false after a retry that followed one
\* commit, and the call returned
C19_Witness ==
    /\ event = "callback_false_retry"
    /\ pc = "idle"
    /\ result = "returned"
    /\ m_status = "Continue"
    /\ commits = 1
    /\ m_current.iterations = 1

\* C20: a call starts at current.iterations = 0, error code Success, the
\* default strategy level, solver_info.iterations = 0 with the line_search
\* name kept and old_energy = NaN; its first attempt has fDelta = NaN and
\* does not end with FDeltaTolerance.
C20_CleanStart ==
    /\ event = "start" =>
           /\ m_current.iterations = 0
           /\ m_error_code = "Success"
           /\ descent_strategy = default_descent_strategy
           /\ solver_info.iterations = 0
           /\ solver_info.line_search = "method"
           /\ IsNaN(old_energy)
    /\ (calls > 0 /\ commits = 0 /\ retries = 0 /\ pc # "energy") =>
           m_status # "FDeltaTolerance"
    /\ (commits = 0 /\ retries = 0 /\ pc = "gradient") =>
           IsNaN(m_current.fDelta)

\* C20 witness: the second call starts after a first call that threw
C20_Witness ==
    /\ event = "start"
    /\ calls = 2
    /\ m_status = "UserDefined"
    /\ m_current.iterations = 0
    /\ m_error_code = "Success"

====
